---- MODULE Spec2Model ----
(***************************************************************************)
(* Control-flow model of train_duq_cifar.py: the command line entry, main, *)
(* the two ignite engines (trainer, evaluator) with their metric handlers, *)
(* the train and eval step functions and the epoch hook log_results.       *)
(*                                                                         *)
(* Tensors are abstracted: the model parameters, the optimizer momentum    *)
(* buffers and the centroid EMA state are version counters (how many times *)
(* each was written), a forward pass yields the triple of what it read     *)
(* (parameter version, centroid version, batch), and the scalar losses are *)
(* integer functions of that triple.  Running means are kept as the code   *)
(* keeps them (sum, count) and compared as fractions.                      *)
(***************************************************************************)
EXTENDS Integers, Sequences, FiniteSets, TLC

\* ------------------------------------------------------------ bounds
MaxEpochs == 198        \* the longest run besides the default of 200 epochs
NumShuffles == 2        \* permutations the shuffling train loader may draw

\* ------------------------------------------------- program constants
DefaultEpochs == 200    \* --epochs default
test_batch_size == 200  \* test_batch_size = 200
OODThreshold == 195     \* if trainer.state.epoch > 195

Milestones == {60, 120, 160}   \* MultiStepLR(milestones=[60, 120, 160])
Choices == {"ResNet18", "WRN"} \* argparse choices of --architecture

\* ------------------------------------------------------------ inputs
Architectures == Choices \cup {"VGG"}

\* Short runs over every combination of the other arguments.
ShortArgs ==
    [architecture : Architectures, final_model : BOOLEAN, epochs : {1, 2},
     batch_size : {300, 800}, len_dataset : {1000, 1250},
     len_test : {200, 300, 400}, l_gradient_penalty : {0, 1}]

\* Long runs (the default 200 epochs and MaxEpochs) on one data configuration.
LongArgs ==
    [architecture : {"ResNet18"}, final_model : BOOLEAN,
     epochs : {DefaultEpochs, MaxEpochs},
     batch_size : {800}, len_dataset : {1000},
     len_test : {200}, l_gradient_penalty : {1}]

Args == ShortArgs \cup LongArgs

VARIABLES
    args,        \* kwargs of main
    mainPc,      \* position of the main program
    error,       \* the exception that ended the run, "" if none
    resources,   \* training resources allocated so far
    stack,       \* call stack: main, trainer, log_results, evaluator
    params,      \* model parameters: number of optimizer steps applied
    momentum,    \* optimizer momentum buffers: number of writes
    grads,       \* parameter .grad: number of backward passes accumulated
    ema,         \* centroid EMA state (N, m): number of update_embeddings
    lr,          \* number of decays (x 0.2) applied to the learning rate
    last_epoch,  \* scheduler.last_epoch
    handlers,    \* handlers[engine][event]: registered handlers, in order
    acc,         \* the Average objects: acc[obj] = [sum, n]
    engine,      \* engine[e]: the state of trainer / evaluator
    opi,         \* next statement of the running step function
    hop,         \* next statement of log_results
    y_pred,      \* result of the last forward pass of the running step
    count,       \* count[<<f, op>>]: executions of statement op of function f
    hookEpochs,  \* epochs at which log_results was entered, in order
    oodEpochs,   \* epochs at which the OOD branch ran
    passPreds,   \* passPreds[e]: forward passes of the current pass of e
    trainLog,    \* what log_results last read from trainer.state.metrics
    validLog,    \* what log_results last read from evaluator.state.metrics
    testAcc      \* accuracy read after the final test pass

vars == <<args, mainPc, error, resources, stack, params, momentum, grads, ema,
          lr, last_epoch, handlers, acc, engine, opi, hop, y_pred, count,
          hookEpochs, oodEpochs, passPreds, trainLog, validLog, testAcc>>

modelVars == <<params, momentum, grads, ema>>
schedVars == <<lr, last_epoch>>
histVars  == <<hookEpochs, oodEpochs, trainLog, validLog, testAcc>>

Engines == {"trainer", "evaluator"}
Events == {"EPOCH_STARTED", "ITERATION_COMPLETED", "EPOCH_COMPLETED"}
MetricNames == {"loss", "accuracy", "bce", "gradient_penalty"}
MetricObjs == {"m_loss", "m_acc", "m_bce", "m_gp"}

\* ------------------------------------------------------ data loading
\* val_size = int(len(dataset) * 0.8): the index the training subset ends at
val_size(n) == (n * 8) \div 10

TrainLen(a) == IF a.final_model THEN a.len_dataset ELSE val_size(a.len_dataset)
ValLen(a) ==
    IF a.final_model THEN a.len_test ELSE a.len_dataset - val_size(a.len_dataset)

\* the dataset object behind val_loader: the test set itself when final_model
ValDataset(a) == IF a.final_model THEN "test" ELSE "val"

\* len(DataLoader(..., batch_size, drop_last))
NumBatches(len, bs, drop_last) ==
    IF drop_last THEN len \div bs ELSE (len + bs - 1) \div bs

\* number of examples of batch i (1-based) of a loader that keeps the tail
BatchLen(len, bs, i) == IF i * bs <= len THEN bs ELSE len - (i - 1) * bs

\* variant: only the validation set checked
SizesOkValOnly(a) == ValLen(a) % test_batch_size = 0

\* the asserts before the loaders are built
SizesOk(a) ==
    /\ ValLen(a) % test_batch_size = 0
    /\ a.len_test % test_batch_size = 0

DatasetCode(ds) == CASE ds = "train" -> 1 [] ds = "val" -> 2 [] ds = "test" -> 3

\* the content of batch i of a pass over ds under permutation s
Batch(ds, s, i) == DatasetCode(ds) * 100 + s * 10 + i

\* ------------------------------------------------- forward and losses
NoPred == [p |-> -1, u |-> -1, x |-> -1]

\* y_pred = model(x): a function of parameters, centroid readout and batch
ModelForward(p, u, x) == [p |-> p, u |-> u, x |-> x]

Bce(y) == 1 + y.p + 2 * y.u + y.x
Gp(y) == 2 * y.p + y.u + 3 * y.x
Accuracy(y) == (y.p + y.u + y.x) % 101
Loss(y, l) == Bce(y) + l * Gp(y)

\* variant: the bce and gp components returned in each other's place
StepOutputSwapped(y, l) == <<Loss(y, l), Gp(y), Bce(y)>>

\* return loss.item(), bce.item(), gp.item()
StepOutput(y, l) == <<Loss(y, l), Bce(y), Gp(y)>>

\* return acc.item(), bce.item(), gp.item()
EvalStepOutput(y) == <<Accuracy(y), Bce(y), Gp(y)>>

\* ------------------------------------------------ the function bodies
\* Each function body is the sequence of its state-changing statements; the
\* actions below execute the statement the program counter points at.

\* variant: the centroid update moved before the forward pass
stepUpdateFirst ==
    <<"zero_grad", "update_embeddings", "forward", "backward", "optimizer_step">>
\* variant: the centroid update moved before optimizer.step()
stepUpdateBeforeOptimizer ==
    <<"zero_grad", "forward", "backward", "update_embeddings", "optimizer_step">>
\* def step(engine, batch)
step ==
    <<"zero_grad", "forward", "backward", "optimizer_step", "update_embeddings">>

\* variant: an eval step that also updates the centroids
eval_stepUpdating == <<"forward", "update_embeddings">>
\* def eval_step(engine, batch)
eval_step == <<"forward">>

\* variant: scheduler.step() moved before the validation pass
log_resultsSchedulerFirst ==
    <<"log_train", "ood", "scheduler_step", "evaluator_run", "log_valid">>
\* def log_results(trainer)
log_results ==
    <<"log_train", "ood", "evaluator_run", "log_valid", "scheduler_step">>

\* variant: an off-by-one threshold
OODDueFrom(epoch) == epoch >= OODThreshold
\* if trainer.state.epoch > 195
OODDue(epoch) == epoch > OODThreshold

StepOps == {"zero_grad", "forward", "backward", "optimizer_step",
            "update_embeddings"}
HookOps == {"log_train", "ood", "evaluator_run", "log_valid", "scheduler_step"}
Counted == ({"step", "eval_step"} \X StepOps) \cup ({"log_results"} \X HookOps)

\* ------------------------------------------------------------ metrics
ZeroAcc == [sum |-> 0, n |-> 0]
NoMetric == [num |-> 0, den |-> 0]

\* output_transform of each Average: lambda x: x[0], x[1], x[2]
Slot(obj) == CASE obj = "m_loss" -> 1 [] obj = "m_acc" -> 1
               [] obj = "m_bce" -> 2 [] obj = "m_gp" -> 3

Handler(fn, obj, name) == [fn |-> fn, metric |-> obj, name |-> name]

HasHandler(hs, e, ev, fn, obj) ==
    \E i \in 1..Len(hs[e][ev]) :
        hs[e][ev][i].fn = fn /\ hs[e][ev][i].metric = obj

AddHandler(hs, e, ev, h) == [hs EXCEPT ![e][ev] = Append(@, h)]

\* variant: has_event_handler(started) asked of every engine, so that a
\* metric shared by two engines is reset by the first one only
AttachStartedOnce(hs, e, obj, name) ==
    LET h1 == IF \E e2 \in Engines : HasHandler(hs, e2, "EPOCH_STARTED", "started", obj)
              THEN hs
              ELSE AddHandler(hs, e, "EPOCH_STARTED", Handler("started", obj, ""))
        h2 == IF HasHandler(h1, e, "ITERATION_COMPLETED", "iteration_completed", obj)
              THEN h1
              ELSE AddHandler(h1, e, "ITERATION_COMPLETED",
                              Handler("iteration_completed", obj, ""))
    IN AddHandler(h2, e, "EPOCH_COMPLETED", Handler("completed", obj, name))

\* metric.attach(engine, name): started and iteration_completed once per
\* engine, completed under the given name
Attach(hs, e, obj, name) ==
    LET h1 == IF HasHandler(hs, e, "EPOCH_STARTED", "started", obj)
              THEN hs
              ELSE AddHandler(hs, e, "EPOCH_STARTED", Handler("started", obj, ""))
        h2 == IF HasHandler(h1, e, "ITERATION_COMPLETED", "iteration_completed", obj)
              THEN h1
              ELSE AddHandler(h1, e, "ITERATION_COMPLETED",
                              Handler("iteration_completed", obj, ""))
    IN AddHandler(h2, e, "EPOCH_COMPLETED", Handler("completed", obj, name))

NoHandlers == [e \in Engines |-> [ev \in Events |-> <<>>]]

\* the attach calls of main, in program order
AttachAll ==
    LET h1 == Attach(NoHandlers, "trainer", "m_loss", "loss")
        h2 == Attach(h1, "evaluator", "m_acc", "accuracy")
        h3 == Attach(h2, "trainer", "m_bce", "bce")
        h4 == Attach(h3, "evaluator", "m_bce", "bce")
        h5 == Attach(h4, "trainer", "m_gp", "gradient_penalty")
    IN Attach(h5, "evaluator", "m_gp", "gradient_penalty")

\* variant: log_results registered ahead of the metrics' completed handlers
RegisterFirst(hs) ==
    [hs EXCEPT !["trainer"]["EPOCH_COMPLETED"] =
        <<Handler("log_results", "", "")>> \o @]

\* @trainer.on(Events.EPOCH_COMPLETED) def log_results
RegisterLogResults(hs) ==
    AddHandler(hs, "trainer", "EPOCH_COMPLETED", Handler("log_results", "", ""))

\* the started handlers of an event list: Average.reset
RECURSIVE FireStarted(_, _, _)
FireStarted(a, hs, i) ==
    IF i > Len(hs) THEN a
    ELSE FireStarted([a EXCEPT ![hs[i].metric] = ZeroAcc], hs, i + 1)

\* the iteration_completed handlers: Average.update(output_transform(output))
RECURSIVE FireIterationCompleted(_, _, _, _)
FireIterationCompleted(a, hs, out, i) ==
    IF i > Len(hs) THEN a
    ELSE FireIterationCompleted(
            [a EXCEPT ![hs[i].metric] =
                [sum |-> @.sum + out[Slot(hs[i].metric)], n |-> @.n + 1]],
            hs, out, i + 1)

\* Average.compute: sum / num_examples, kept as a fraction
Compute(a) == [num |-> a.sum, den |-> a.n]

FracEq(f, g) == f.den > 0 /\ g.den > 0 /\ f.num * g.den = g.num * f.den

\* the scalar a metric name stands for, of one forward pass
Scalar(name, y, l) ==
    CASE name = "loss" -> Loss(y, l)
      [] name = "bce" -> Bce(y)
      [] name = "gradient_penalty" -> Gp(y)
      [] name = "accuracy" -> Accuracy(y)

RECURSIVE SumOver(_, _, _, _)
SumOver(name, s, l, i) ==
    IF i > Len(s) THEN 0 ELSE Scalar(name, s[i], l) + SumOver(name, s, l, i + 1)

\* the mean of a scalar over the forward passes s
MeanOf(name, s, l) == [num |-> SumOver(name, s, l, 1), den |-> Len(s)]

\* ------------------------------------------------------------- engine
NewState(max_epochs, ds, nb) ==
    [epoch |-> 0, iteration |-> 0, max_epochs |-> max_epochs,
     metrics |-> [m \in MetricNames |-> NoMetric],
     phase |-> "epoch_started", hidx |-> 0, bidx |-> 0, nbatches |-> nb,
     data |-> ds, shuffle |-> 0, x |-> 0]

IdleState == [NewState(0, "none", 0) EXCEPT !.phase = "idle"]

Top == stack[Len(stack)]
Pop == SubSeq(stack, 1, Len(stack) - 1)
Running == Top \in Engines /\ engine[Top].phase = "step"
Body == IF Top = "trainer" THEN step ELSE eval_step
BodyName == IF Top = "trainer" THEN "step" ELSE "eval_step"
Op == IF Running /\ opi <= Len(Body) THEN Body[opi] ELSE "none"
HookOp == IF Top = "log_results" /\ hop <= Len(log_results)
          THEN log_results[hop] ELSE "none"

Bump(c, f, op) == [c EXCEPT ![<<f, op>>] = @ + 1]

\* ----------------------------------------------------------------- Init
Init ==
    /\ args \in Args
    /\ mainPc \in {"cli", "direct"}
    /\ error = ""
    /\ resources = {}
    /\ stack = <<"main">>
    /\ params = 0 /\ momentum = 0 /\ grads = 0 /\ ema = 0
    /\ lr = 0 /\ last_epoch = 0
    /\ handlers = NoHandlers
    /\ acc = [o \in MetricObjs |-> ZeroAcc]
    /\ engine = [e \in Engines |-> IdleState]
    /\ opi = 0 /\ hop = 0
    /\ y_pred = NoPred
    /\ count = [c \in Counted |-> 0]
    /\ hookEpochs = <<>>
    /\ oodEpochs = {}
    /\ passPreds = [e \in Engines |-> <<>>]
    /\ trainLog = [epoch |-> 0, loss |-> NoMetric, bce |-> NoMetric, gp |-> NoMetric]
    /\ validLog = [epoch |-> 0, acc |-> NoMetric, bce |-> NoMetric,
                   gp |-> NoMetric, loss |-> NoMetric]
    /\ testAcc = NoMetric


Raise(e) ==
    /\ mainPc' = "error"
    /\ error' = e
    /\ stack' = <<"main">>

\* ----------------------------------------------------- the main program
\* __main__: parser.parse_args() rejects a value outside choices, else main
ParseArgs ==
    /\ Top = "main" /\ mainPc = "cli"
    /\ IF args.architecture \in Choices
       THEN mainPc' = "main_setup" /\ UNCHANGED <<error, stack>>
       ELSE Raise("argparse.error")
    /\ UNCHANGED <<args, resources, modelVars, schedVars, handlers, acc, engine,
                   opi, hop, y_pred, count, passPreds, histVars>>

\* main(...) called by an importing program, with any architecture value
CallMain ==
    /\ Top = "main" /\ mainPc = "direct"
    /\ mainPc' = "main_setup"
    /\ UNCHANGED <<args, error, resources, stack, modelVars, schedVars, handlers,
                   acc, engine, opi, hop, y_pred, count, passPreds, histVars>>

\* writer = SummaryWriter(...); ds = all_datasets["CIFAR10"](); the split
MainSetup ==
    /\ Top = "main" /\ mainPc = "main_setup"
    /\ resources' = resources \cup {"writer", "datasets"}
    /\ mainPc' = "select_model"
    /\ UNCHANGED <<args, error, stack, modelVars, schedVars, handlers, acc,
                   engine, opi, hop, y_pred, count, passPreds, histVars>>

\* if architecture == "WRN" ... elif "ResNet18" ...; model = ResNet_DUQ(model_class, ...)
SelectModel ==
    /\ Top = "main" /\ mainPc = "select_model"
    /\ IF args.architecture \in {"WRN", "ResNet18"}
       THEN /\ resources' = resources \cup {"model"}
            /\ mainPc' = "build"
            /\ UNCHANGED <<error, stack>>
       ELSE /\ Raise("UnboundLocalError")
            /\ UNCHANGED resources
    /\ UNCHANGED <<args, modelVars, schedVars, handlers, acc, engine, opi, hop,
                   y_pred, count, passPreds, histVars>>

\* optimizer, scheduler, the two engines, the metric attachments, train_loader
Build ==
    /\ Top = "main" /\ mainPc = "build"
    /\ resources' = resources \cup {"optimizer", "scheduler"}
    /\ handlers' = AttachAll
    /\ mainPc' = "check_sizes"
    /\ UNCHANGED <<args, error, stack, modelVars, schedVars, acc, engine, opi,
                   hop, y_pred, count, passPreds, histVars>>

\* assert len(val_dataset) % test_batch_size == 0; the same for test_dataset
CheckBatchSizes ==
    /\ Top = "main" /\ mainPc = "check_sizes"
    /\ IF SizesOk(args)
       THEN mainPc' = "register_hook" /\ UNCHANGED <<error, stack>>
       ELSE Raise("AssertionError")
    /\ UNCHANGED <<args, resources, modelVars, schedVars, handlers, acc, engine,
                   opi, hop, y_pred, count, passPreds, histVars>>

\* val_loader, test_loader, @trainer.on(Events.EPOCH_COMPLETED)
RegisterHook ==
    /\ Top = "main" /\ mainPc = "register_hook"
    /\ handlers' = RegisterLogResults(handlers)
    /\ mainPc' = "trainer_run"
    /\ UNCHANGED <<args, error, resources, stack, modelVars, schedVars, acc,
                   engine, opi, hop, y_pred, count, passPreds, histVars>>

\* trainer.run(train_loader, max_epochs=epochs)
TrainerRun ==
    /\ Top = "main" /\ mainPc = "trainer_run"
    /\ engine' = [engine EXCEPT !["trainer"] =
          NewState(args.epochs, "train",
                   NumBatches(TrainLen(args), args.batch_size, TRUE))]
    /\ stack' = Append(stack, "trainer")
    /\ UNCHANGED <<args, mainPc, error, resources, modelVars, schedVars,
                   handlers, acc, opi, hop, y_pred, count, passPreds, histVars>>

\* evaluator.run(test_loader)
TestRun ==
    /\ Top = "main" /\ mainPc = "test_run"
    /\ engine' = [engine EXCEPT !["evaluator"] =
          NewState(1, "test", NumBatches(args.len_test, test_batch_size, FALSE))]
    /\ stack' = Append(stack, "evaluator")
    /\ UNCHANGED <<args, mainPc, error, resources, modelVars, schedVars,
                   handlers, acc, opi, hop, y_pred, count, passPreds, histVars>>

\* acc = evaluator.state.metrics["accuracy"]; torch.save; writer.close()
Finish ==
    /\ Top = "main" /\ mainPc = "finish"
    /\ testAcc' = engine["evaluator"].metrics["accuracy"]
    /\ resources' = resources \cup {"model.pt"}
    /\ mainPc' = "done"
    /\ UNCHANGED <<args, error, stack, modelVars, schedVars, handlers, acc,
                   engine, opi, hop, y_pred, count, passPreds, hookEpochs,
                   oodEpochs, trainLog, validLog>>

\* ---------------------------------------------------------- Engine.run
\* EPOCH_STARTED: the epoch counter, the metric resets, a new loader iterator
EpochStarted ==
    /\ Top \in Engines /\ engine[Top].phase = "epoch_started"
    /\ \E s \in (IF engine[Top].data = "train" THEN 0..(NumShuffles - 1) ELSE {0}) :
          engine' = [engine EXCEPT ![Top] =
              [@ EXCEPT !.epoch = @ + 1, !.shuffle = s, !.bidx = 1, !.hidx = 1,
                        !.x = Batch(engine[Top].data, s, 1),
                        !.phase = IF engine[Top].nbatches = 0
                                  THEN "epoch_completed" ELSE "step"]]
    /\ acc' = FireStarted(acc, handlers[Top]["EPOCH_STARTED"], 1)
    /\ opi' = 1
    /\ y_pred' = NoPred
    /\ passPreds' = [passPreds EXCEPT ![Top] = <<>>]
    /\ UNCHANGED <<args, mainPc, error, resources, stack, modelVars, schedVars,
                   handlers, hop, count, histVars>>

\* optimizer.zero_grad()
ZeroGrad ==
    /\ Op = "zero_grad"
    /\ grads' = 0
    /\ opi' = opi + 1
    /\ count' = Bump(count, BodyName, "zero_grad")
    /\ UNCHANGED <<args, mainPc, error, resources, stack, params, momentum, ema,
                   schedVars, handlers, acc, engine, hop, y_pred, passPreds,
                   histVars>>

\* x.requires_grad_(True); y_pred = model(x); bce, gp (and loss or acc)
Forward ==
    /\ Op = "forward"
    /\ y_pred' = ModelForward(params, ema, engine[Top].x)
    /\ passPreds' = [passPreds EXCEPT ![Top] = Append(@, y_pred')]
    /\ opi' = opi + 1
    /\ count' = Bump(count, BodyName, "forward")
    /\ UNCHANGED <<args, mainPc, error, resources, stack, modelVars, schedVars,
                   handlers, acc, engine, hop, histVars>>

\* loss.backward()
Backward ==
    /\ Op = "backward"
    /\ grads' = grads + 1
    /\ opi' = opi + 1
    /\ count' = Bump(count, BodyName, "backward")
    /\ UNCHANGED <<args, mainPc, error, resources, stack, params, momentum, ema,
                   schedVars, handlers, acc, engine, hop, y_pred, passPreds,
                   histVars>>

\* optimizer.step()
OptimizerStep ==
    /\ Op = "optimizer_step"
    /\ params' = params + 1
    /\ momentum' = momentum + 1
    /\ opi' = opi + 1
    /\ count' = Bump(count, BodyName, "optimizer_step")
    /\ UNCHANGED <<args, mainPc, error, resources, stack, grads, ema, schedVars,
                   handlers, acc, engine, hop, y_pred, passPreds, histVars>>

\* x.requires_grad_(False); with torch.no_grad(): model.update_embeddings(x, y)
UpdateEmbeddings ==
    /\ Op = "update_embeddings"
    /\ ema' = ema + 1
    /\ opi' = opi + 1
    /\ count' = Bump(count, BodyName, "update_embeddings")
    /\ UNCHANGED <<args, mainPc, error, resources, stack, params, momentum, grads,
                   schedVars, handlers, acc, engine, hop, y_pred, passPreds,
                   histVars>>

\* the step function returns; ITERATION_COMPLETED: the metric updates; next batch
IterationCompleted ==
    /\ Running /\ opi > Len(Body)
    /\ LET e == engine[Top]
           out == IF Top = "trainer"
                  THEN StepOutput(y_pred, args.l_gradient_penalty)
                  ELSE EvalStepOutput(y_pred)
       IN /\ acc' = FireIterationCompleted(
                        acc, handlers[Top]["ITERATION_COMPLETED"], out, 1)
          /\ engine' = [engine EXCEPT ![Top] =
                IF e.bidx < e.nbatches
                THEN [e EXCEPT !.iteration = @ + 1, !.bidx = @ + 1,
                               !.x = Batch(e.data, e.shuffle, e.bidx + 1)]
                ELSE [e EXCEPT !.iteration = @ + 1, !.phase = "epoch_completed",
                               !.hidx = 1]]
    /\ opi' = 1
    /\ y_pred' = NoPred
    /\ UNCHANGED <<args, mainPc, error, resources, stack, modelVars, schedVars,
                   handlers, hop, count, passPreds, histVars>>

CurHandler == handlers[Top]["EPOCH_COMPLETED"][engine[Top].hidx]
Dispatching ==
    /\ Top \in Engines /\ engine[Top].phase = "epoch_completed"
    /\ engine[Top].hidx <= Len(handlers[Top]["EPOCH_COMPLETED"])

\* EPOCH_COMPLETED, a metric's completed handler:
\* engine.state.metrics[name] = metric.compute()
MetricCompleted ==
    /\ Dispatching /\ CurHandler.fn = "completed"
    /\ IF acc[CurHandler.metric].n = 0
       THEN Raise("NotComputableError") /\ UNCHANGED engine
       ELSE /\ engine' = [engine EXCEPT ![Top] =
                  [@ EXCEPT !.metrics[CurHandler.name] = Compute(acc[CurHandler.metric]),
                            !.hidx = @ + 1]]
            /\ UNCHANGED <<mainPc, error, stack>>
    /\ UNCHANGED <<args, resources, modelVars, schedVars, handlers, acc, opi, hop,
                   y_pred, count, passPreds, histVars>>

\* EPOCH_COMPLETED, the handler log_results is called
EnterLogResults ==
    /\ Dispatching /\ CurHandler.fn = "log_results"
    /\ stack' = Append(stack, "log_results")
    /\ hop' = 1
    /\ hookEpochs' = Append(hookEpochs, engine["trainer"].epoch)
    /\ UNCHANGED <<args, mainPc, error, resources, modelVars, schedVars, handlers,
                   acc, engine, opi, y_pred, count, passPreds, oodEpochs,
                   trainLog, validLog, testAcc>>

\* after the EPOCH_COMPLETED handlers: the next epoch, or run returns
EpochLoop ==
    /\ Top \in Engines /\ engine[Top].phase = "epoch_completed"
    /\ engine[Top].hidx > Len(handlers[Top]["EPOCH_COMPLETED"])
    /\ IF engine[Top].epoch < engine[Top].max_epochs
       THEN /\ engine' = [engine EXCEPT ![Top].phase = "epoch_started"]
            /\ UNCHANGED <<stack, mainPc, hop>>
       ELSE /\ engine' = [engine EXCEPT ![Top].phase = "idle"]
            /\ stack' = Pop
            /\ hop' = IF Pop[Len(Pop)] = "log_results" THEN hop + 1 ELSE hop
            /\ mainPc' = IF Pop[Len(Pop)] # "main" THEN mainPc
                         ELSE IF mainPc = "trainer_run" THEN "test_run"
                         ELSE "finish"
    /\ UNCHANGED <<args, error, resources, modelVars, schedVars, handlers, acc,
                   opi, y_pred, count, passPreds, histVars>>

\* ---------------------------------------------------------- log_results
\* metrics = trainer.state.metrics; loss, bce, GP; print; writer.add_scalar
LogTrain ==
    /\ HookOp = "log_train"
    /\ LET m == engine["trainer"].metrics
       IN IF NoMetric \in {m["loss"], m["bce"], m["gradient_penalty"]}
          THEN Raise("KeyError") /\ UNCHANGED <<trainLog, hop, count>>
          ELSE /\ trainLog' = [epoch |-> engine["trainer"].epoch,
                               loss |-> m["loss"], bce |-> m["bce"],
                               gp |-> m["gradient_penalty"]]
               /\ hop' = hop + 1
               /\ count' = Bump(count, "log_results", "log_train")
               /\ UNCHANGED <<mainPc, error, stack>>
    /\ UNCHANGED <<args, resources, modelVars, schedVars, handlers, acc, engine,
                   opi, y_pred, passPreds, hookEpochs, oodEpochs, validLog,
                   testAcc>>

\* if trainer.state.epoch > 195: get_cifar_svhn_ood, get_auroc_classification
OODEval ==
    /\ HookOp = "ood"
    /\ oodEpochs' = IF OODDue(engine["trainer"].epoch)
                    THEN oodEpochs \cup {engine["trainer"].epoch}
                    ELSE oodEpochs
    /\ hop' = hop + 1
    /\ count' = Bump(count, "log_results", "ood")
    /\ UNCHANGED <<args, mainPc, error, resources, stack, modelVars, schedVars,
                   handlers, acc, engine, opi, y_pred, passPreds, hookEpochs,
                   trainLog, validLog, testAcc>>

\* evaluator.run(val_loader)
EvaluatorRun ==
    /\ HookOp = "evaluator_run"
    /\ engine' = [engine EXCEPT !["evaluator"] =
          NewState(1, ValDataset(args),
                   NumBatches(ValLen(args), test_batch_size, FALSE))]
    /\ stack' = Append(stack, "evaluator")
    /\ count' = Bump(count, "log_results", "evaluator_run")
    /\ UNCHANGED <<args, mainPc, error, resources, modelVars, schedVars, handlers,
                   acc, opi, hop, y_pred, passPreds, histVars>>

\* metrics = evaluator.state.metrics; acc, bce, GP; loss = bce + l * GP; logging
LogValid ==
    /\ HookOp = "log_valid"
    /\ LET m == engine["evaluator"].metrics
           l == args.l_gradient_penalty
           b == m["bce"]
           g == m["gradient_penalty"]
       IN IF NoMetric \in {m["accuracy"], b, g}
          THEN Raise("KeyError") /\ UNCHANGED <<validLog, hop, count>>
          ELSE /\ validLog' = [epoch |-> engine["trainer"].epoch,
                               acc |-> m["accuracy"], bce |-> b, gp |-> g,
                               loss |-> [num |-> b.num * g.den + l * g.num * b.den,
                                         den |-> b.den * g.den]]
               /\ hop' = hop + 1
               /\ count' = Bump(count, "log_results", "log_valid")
               /\ UNCHANGED <<mainPc, error, stack>>
    /\ UNCHANGED <<args, resources, modelVars, schedVars, handlers, acc, engine,
                   opi, y_pred, passPreds, hookEpochs, oodEpochs, trainLog,
                   testAcc>>

\* scheduler.step(): MultiStepLR decays the learning rate at the milestones
SchedulerStep ==
    /\ HookOp = "scheduler_step"
    /\ last_epoch' = last_epoch + 1
    /\ lr' = IF last_epoch + 1 \in Milestones THEN lr + 1 ELSE lr
    /\ hop' = hop + 1
    /\ count' = Bump(count, "log_results", "scheduler_step")
    /\ UNCHANGED <<args, mainPc, error, resources, stack, modelVars, handlers,
                   acc, engine, opi, y_pred, passPreds, histVars>>

\* log_results returns to the trainer's event dispatch
HookReturn ==
    /\ Top = "log_results" /\ hop > Len(log_results)
    /\ stack' = Pop
    /\ engine' = [engine EXCEPT !["trainer"].hidx = @ + 1]
    /\ UNCHANGED <<args, mainPc, error, resources, modelVars, schedVars, handlers,
                   acc, opi, hop, y_pred, count, passPreds, histVars>>

Next ==
    \/ ParseArgs \/ CallMain \/ MainSetup \/ SelectModel \/ Build
    \/ CheckBatchSizes \/ RegisterHook \/ TrainerRun \/ TestRun \/ Finish
    \/ EpochStarted \/ ZeroGrad \/ Forward \/ Backward \/ OptimizerStep
    \/ UpdateEmbeddings \/ IterationCompleted \/ MetricCompleted
    \/ EnterLogResults \/ EpochLoop
    \/ LogTrain \/ OODEval \/ EvaluatorRun \/ LogValid \/ SchedulerStep
    \/ HookReturn

Spec == Init /\ [][Next]_vars


\* ====================================================== the properties
TE == engine["trainer"]
EV == engine["evaluator"]
InHook == \E i \in 1..Len(stack) : stack[i] = "log_results"
S(op) == count[<<"step", op>>]
E(op) == count[<<"eval_step", op>>]
H(op) == count[<<"log_results", op>>]
Mean(name, e) == MeanOf(name, passPreds[e], args.l_gradient_penalty)

\* C1: log_results runs the OOD evaluation at epoch e exactly when e > 195;
\* a run of 200 epochs ends with the OOD evaluation run at 196..200 only.
C1_OODExactlyAfter195 ==
    /\ \A i \in 1..Len(hookEpochs) :
          LET e == hookEpochs[i]
              passed == i < Len(hookEpochs) \/ H("ood") = Len(hookEpochs)
          IN /\ e \in oodEpochs => e > 195
             /\ (e > 195 /\ passed) => e \in oodEpochs
    /\ \A e \in oodEpochs : \E i \in 1..Len(hookEpochs) : hookEpochs[i] = e
    /\ (mainPc = "done" /\ args.epochs = 200) => oodEpochs = 196..200

C1_Witness ==
    /\ mainPc = "done" /\ args.epochs = 200
    /\ Len(hookEpochs) = 200
    /\ 195 \notin oodEpochs /\ 196 \in oodEpochs /\ 200 \in oodEpochs

\* C2: log_results is entered exactly once per epoch, in epoch order, when
\* every batch of the epoch went through step and the epoch's running means
\* are in trainer.state.metrics, and before the trainer's next EPOCH_STARTED
\* resets them (the trainer-only accumulator still holds the epoch's sum).
C2_HookOncePerEpochAfterMetrics ==
    /\ hookEpochs = [i \in 1..Len(hookEpochs) |-> i]
    /\ Len(hookEpochs) =
          IF \/ InHook
             \/ TE.phase \in {"idle", "epoch_started"}
             \/ /\ TE.phase = "epoch_completed"
                /\ TE.hidx > Len(handlers["trainer"]["EPOCH_COMPLETED"])
          THEN TE.epoch
          ELSE TE.epoch - 1
    /\ InHook =>
          /\ TE.phase = "epoch_completed"
          /\ TE.bidx = TE.nbatches
          /\ TE.iteration = TE.epoch * TE.nbatches
          /\ S("update_embeddings") = TE.iteration
          /\ Len(passPreds["trainer"]) = TE.nbatches
          /\ FracEq(TE.metrics["loss"], Mean("loss", "trainer"))
          /\ TE.metrics["bce"] # NoMetric
          /\ TE.metrics["gradient_penalty"] # NoMetric
          /\ acc["m_loss"] = [sum |-> Mean("loss", "trainer").num,
                              n |-> TE.nbatches]

C2_Witness ==
    /\ Top = "log_results" /\ hop = 1
    /\ TE.epoch = 2 /\ TE.nbatches = 2
    /\ hookEpochs = <<1, 2>>

\* C3: inside log_results the statements run in the order log_train, OOD
\* check, evaluator pass over the validation split, log_valid, one
\* scheduler.step(); a training batch runs only when every earlier hook has
\* finished its scheduler.step() and the evaluator is idle.
C3_HookOrderBlocksTraining ==
    LET k == Len(hookEpochs) IN
    /\ H("scheduler_step") <= H("log_valid")
    /\ H("log_valid") <= H("evaluator_run")
    /\ H("evaluator_run") <= H("ood")
    /\ H("ood") <= H("log_train")
    /\ H("log_train") <= k
    /\ k <= H("scheduler_step") + 1
    /\ last_epoch = H("scheduler_step")
    /\ ~InHook => H("scheduler_step") = k
    /\ (Top = "evaluator" /\ InHook) =>
          /\ H("evaluator_run") = k /\ H("log_valid") = k - 1
          /\ EV.data = ValDataset(args)
    /\ HookOp = "log_valid" =>
          /\ H("evaluator_run") = k
          /\ EV.phase = "idle" /\ EV.epoch = 1
          /\ EV.iteration = NumBatches(ValLen(args), 200, FALSE)
          /\ Len(passPreds["evaluator"]) = EV.iteration
    /\ HookOp = "scheduler_step" => validLog.epoch = k /\ trainLog.epoch = k
    /\ (Top = "trainer" /\ TE.phase = "step") =>
          /\ H("scheduler_step") = TE.epoch - 1
          /\ H("log_train") = TE.epoch - 1
          /\ EV.phase = "idle"
    /\ (InHook \/ Top = "evaluator") => ~(Top = "trainer" /\ TE.phase = "step")

C3_Witness ==
    /\ HookOp = "scheduler_step"
    /\ TE.epoch \in oodEpochs
    /\ validLog.epoch = TE.epoch
    /\ last_epoch = TE.epoch - 1

\* C4: every call of step runs forward, backward, optimizer.step and
\* update_embeddings in that order, each exactly once; parameters, momentum
\* buffers and centroid EMA state are each written once per call.
C4_StepOrderOncePerCall ==
    /\ S("update_embeddings") <= S("optimizer_step")
    /\ S("optimizer_step") <= S("backward")
    /\ S("backward") <= S("forward")
    /\ S("forward") <= S("zero_grad")
    /\ S("zero_grad") <= S("update_embeddings") + 1
    /\ params = S("optimizer_step")
    /\ momentum = S("optimizer_step")
    /\ ema = S("update_embeddings")
    /\ (Top = "trainer" /\ Op = "optimizer_step") => grads = 1
    /\ (Top = "trainer" /\ Running /\ opi = 1) =>
          /\ S("forward") = TE.iteration
          /\ params = TE.iteration /\ ema = TE.iteration
    /\ (Top = "trainer" /\ Running /\ opi > Len(step)) =>
          /\ S("forward") = TE.iteration + 1
          /\ params = TE.iteration + 1 /\ momentum = TE.iteration + 1
          /\ ema = TE.iteration + 1
    /\ ~(Top = "trainer" /\ Running) => S("zero_grad") = S("update_embeddings")

C4_Witness ==
    /\ Top = "trainer" /\ Running /\ opi > Len(step)
    /\ TE.iteration = 1
    /\ params = 2 /\ momentum = 2 /\ ema = 2

\* C5: while the evaluator runs (eval_step and the evaluator's handlers), the
\* model parameters, the momentum buffers, the gradients, the learning rate,
\* the scheduler and the centroid EMA state do not change.
C5_EvalLeavesModelUnchanged ==
    [][Top = "evaluator" =>
          UNCHANGED <<params, momentum, grads, ema, lr, last_epoch>>]_vars

C5_Witness ==
    /\ HookOp = "log_valid"
    /\ E("forward") = 2 * TE.epoch /\ TE.epoch = 2
    /\ params = TE.iteration /\ ema = TE.iteration
    /\ E("backward") = 0 /\ E("optimizer_step") = 0 /\ E("update_embeddings") = 0

\* C6: every evaluator run starts its first batch with the running means
\* reset; with final_model the validation loader and the test loader read
\* the same dataset, so the last validation pass and the test pass are two
\* evaluator runs on the same frozen model, and their aggregated metrics agree.
C6_EvaluatorIdempotent ==
    /\ (Top = "evaluator" /\ EV.phase = "step" /\ EV.bidx = 1) =>
          /\ acc["m_acc"] = ZeroAcc
          /\ acc["m_bce"] = ZeroAcc
          /\ acc["m_gp"] = ZeroAcc
    /\ (mainPc \in {"finish", "done"} /\ args.final_model) =>
          /\ validLog.epoch = args.epochs
          /\ params = TE.iteration /\ ema = TE.iteration
          /\ FracEq(validLog.acc, EV.metrics["accuracy"])
          /\ FracEq(validLog.bce, EV.metrics["bce"])
          /\ FracEq(validLog.gp, EV.metrics["gradient_penalty"])

C6_Witness ==
    /\ mainPc = "done" /\ args.final_model
    /\ args.len_test = 400
    /\ EV.iteration = 2
    /\ FracEq(testAcc, validLog.acc)

\* C7: a validation or test set whose size is not a multiple of 200 ends the
\* run with an error before any training step; every evaluation batch holds
\* exactly 200 examples; the train loader drops its partial tail silently.
C7_EvalSizesCheckedBeforeTraining ==
    LET bad == ValLen(args) % 200 # 0 \/ args.len_test % 200 # 0 IN
    /\ bad =>
          /\ \A op \in StepOps : S(op) = 0 /\ E(op) = 0
          /\ TE.phase = "idle" /\ EV.phase = "idle"
          /\ mainPc \notin {"register_hook", "trainer_run", "test_run",
                            "finish", "done"}
    /\ error = "AssertionError" => bad
    /\ error \in {"", "argparse.error", "UnboundLocalError", "AssertionError"}
    /\ EV.phase = "step" =>
          BatchLen(IF EV.data = "test" THEN args.len_test ELSE ValLen(args),
                   200, EV.bidx) = 200
    /\ TE.phase # "idle" =>
          /\ TE.nbatches * args.batch_size <= TrainLen(args)
          /\ TrainLen(args) < (TE.nbatches + 1) * args.batch_size

C7_Witness ==
    /\ mainPc = "error" /\ error = "AssertionError"
    /\ args.len_test % 200 # 0
    /\ TrainLen(args) % args.batch_size # 0
    /\ S("forward") = 0

\* C8: an unsupported architecture ends the run with an error before any
\* training resource is allocated, through the command line and through a
\* direct call of main alike.
C8_UnsupportedArchitectureFailsFirst ==
    (mainPc = "error" /\ args.architecture \notin {"ResNet18", "WRN"}) =>
        resources = {}

\* C9 as claimed: no forward pass evaluates the centroid readout before the
\* first update_embeddings call.
C9_ReadoutAfterFirstUpdate ==
    (S("forward") + E("forward") > 0) => ema > 0

\* C9 as amended: the forward pass of the k-th training batch reads the
\* centroid state after exactly k - 1 updates (the first one the state built
\* at model construction), and every eval_step forward pass reads a state
\* that at least one update has been applied to.
C9_ForwardReadsPriorUpdates ==
    /\ \A i \in 1..Len(passPreds["trainer"]) :
          passPreds["trainer"][i].u = (TE.epoch - 1) * TE.nbatches + i - 1
    /\ \A i \in 1..Len(passPreds["evaluator"]) :
          /\ passPreds["evaluator"][i].u >= 1
          /\ passPreds["evaluator"][i].u <= TE.iteration
          /\ EV.phase \in {"step", "epoch_completed"} =>
                passPreds["evaluator"][i].u = TE.iteration

C9_Witness ==
    /\ Top = "trainer" /\ Op = "backward"
    /\ S("forward") = 1 /\ ema = 0 /\ S("update_embeddings") = 0
    /\ y_pred.u = 0

\* C10: the 'bce' and 'gradient_penalty' the hook reads from the trainer are
\* the means over the training batches of that epoch alone, and those read
\* after an evaluator pass are the means over the batches of that pass alone.
C10_SharedMetricsDoNotMix ==
    /\ (trainLog.epoch > 0 /\ trainLog.epoch = TE.epoch) =>
          /\ Len(passPreds["trainer"]) = TE.nbatches
          /\ \A i \in 1..TE.nbatches :
                passPreds["trainer"][i].x = Batch("train", TE.shuffle, i)
          /\ FracEq(trainLog.bce, Mean("bce", "trainer"))
          /\ FracEq(trainLog.gp, Mean("gradient_penalty", "trainer"))
    /\ (validLog.epoch > 0 /\ validLog.epoch = TE.epoch /\ InHook) =>
          /\ Len(passPreds["evaluator"]) = NumBatches(ValLen(args), 200, FALSE)
          /\ \A i \in 1..Len(passPreds["evaluator"]) :
                passPreds["evaluator"][i].x = Batch(ValDataset(args), 0, i)
          /\ FracEq(validLog.acc, Mean("accuracy", "evaluator"))
          /\ FracEq(validLog.bce, Mean("bce", "evaluator"))
          /\ FracEq(validLog.gp, Mean("gradient_penalty", "evaluator"))
    /\ mainPc \in {"finish", "done"} =>
          /\ Len(passPreds["evaluator"]) = NumBatches(args.len_test, 200, FALSE)
          /\ \A i \in 1..Len(passPreds["evaluator"]) :
                passPreds["evaluator"][i].x = Batch("test", 0, i)
          /\ FracEq(EV.metrics["accuracy"], Mean("accuracy", "evaluator"))
          /\ FracEq(EV.metrics["bce"], Mean("bce", "evaluator"))
          /\ FracEq(EV.metrics["gradient_penalty"], Mean("gradient_penalty", "evaluator"))

C10_Witness ==
    /\ mainPc = "done" /\ args.epochs = 2 /\ ~args.final_model
    /\ trainLog.epoch = 2 /\ validLog.epoch = 2
    /\ TE.nbatches = 2
    /\ testAcc # NoMetric

====
